---- MODULE Spec2Model ----
(***************************************************************************)
(* Model of fiberphotometry_graph_analysis_no_zero.py: the per-animal      *)
(* correction pipeline (process_folder), the group aggregation             *)
(* (load_group_data), the mean/SEM computation (plot_control_vs_test) and  *)
(* the driver (main).                                                      *)
(*                                                                         *)
(* Numbers.  The program computes in IEEE double precision.  The model     *)
(* computes in exact rationals extended with +inf, -inf and NaN, combined  *)
(* by the IEEE rules (inf - inf = NaN, x / 0 = +-inf, 0 / 0 = NaN, NaN     *)
(* absorbs).  Rounding error, overflow and signed zero are not modelled.   *)
(* A number is a record [k, n, d]: k = "fin" with the reduced fraction     *)
(* n / d (d > 0), or k in {"pinf", "ninf", "nan"} with n = 0, d = 1.       *)
(*                                                                         *)
(* Time.  The time axis of a recording is kept as an integer number of     *)
(* ticks, TicksPerSec ticks to a second; the configured windows are in     *)
(* the same unit.  Only load_group_data's rounding to whole seconds reads  *)
(* the unit.                                                               *)
(***************************************************************************)
EXTENDS Integers, Sequences, FiniteSets, TLC

\* ---------------------------------------------------------------- bounds
\* most input files in one group's input folder
MaxFiles == 2
\* most processed files handed to load_group_data in SpecAgg
MaxAnimals == 3
\* ticks per second of the modelled time axis
TicksPerSec == 2

\* ------------------------------------------------------ program constants
\* correct_photobleaching / transform_to_zscore: fewest samples in a window
MinWindowSamples == 5
\* process_folder / correct_motion / load_group_data: fewest rows
MinRows == 10
\* detect_header_line: max_lines
max_lines == 20

\* ------------------------------------------------------------ arithmetic
Abs(x) == IF x < 0 THEN -x ELSE x

RECURSIVE GCD(_, _)
GCD(a, b) == IF b = 0 THEN a ELSE GCD(b, a % b)

NaN == [k |-> "nan", n |-> 0, d |-> 1]
PInf == [k |-> "pinf", n |-> 0, d |-> 1]
NInf == [k |-> "ninf", n |-> 0, d |-> 1]

\* the reduced fraction n / d, d # 0
Rat(n, d) ==
    LET s == IF d < 0 THEN -1 ELSE 1
        g == GCD(Abs(n), Abs(d))
    IN [k |-> "fin", n |-> (s * n) \div g, d |-> (s * d) \div g]

Num(i) == [k |-> "fin", n |-> i, d |-> 1]
Zero == Num(0)

IsFin(a) == a.k = "fin"
IsNaN(a) == a.k = "nan"

\* -1, 0, 1 for a number that is not NaN
Sign(a) ==
    CASE a.k = "pinf" -> 1
      [] a.k = "ninf" -> -1
      [] OTHER -> IF a.n > 0 THEN 1 ELSE IF a.n < 0 THEN -1 ELSE 0

Signed(s) == IF s > 0 THEN PInf ELSE NInf

RNeg(a) ==
    CASE a.k = "fin" -> [k |-> "fin", n |-> -a.n, d |-> a.d]
      [] a.k = "pinf" -> NInf
      [] a.k = "ninf" -> PInf
      [] OTHER -> NaN

RAdd(a, b) ==
    IF IsNaN(a) \/ IsNaN(b) THEN NaN
    ELSE IF IsFin(a) /\ IsFin(b) THEN
        (LET g == GCD(a.d, b.d)
         IN Rat(a.n * (b.d \div g) + b.n * (a.d \div g), (a.d \div g) * b.d))
    ELSE IF IsFin(a) THEN b
    ELSE IF IsFin(b) THEN a
    ELSE IF a.k = b.k THEN a ELSE NaN

RSub(a, b) == RAdd(a, RNeg(b))

RMul(a, b) ==
    IF IsNaN(a) \/ IsNaN(b) THEN NaN
    ELSE IF IsFin(a) /\ IsFin(b) THEN
        (LET g == GCD(Abs(a.n), b.d)
             h == GCD(Abs(b.n), a.d)
         IN Rat((a.n \div g) * (b.n \div h), (a.d \div h) * (b.d \div g)))
    ELSE IF Sign(a) = 0 \/ Sign(b) = 0 THEN NaN
    ELSE Signed(Sign(a) * Sign(b))

RDiv(a, b) ==
    IF IsNaN(a) \/ IsNaN(b) THEN NaN
    ELSE IF IsFin(b) /\ b.n = 0 THEN
        (IF Sign(a) = 0 THEN NaN ELSE Signed(Sign(a)))
    ELSE IF IsFin(a) /\ IsFin(b) THEN
        RMul(a, Rat(b.d, b.n))
    ELSE IF IsFin(a) THEN Zero
    ELSE IF IsFin(b) THEN Signed(Sign(a) * Sign(b))
    ELSE NaN

\* a <= b on numbers; any comparison with NaN is false
RLeq(a, b) ==
    IF IsNaN(a) \/ IsNaN(b) THEN FALSE
    ELSE IF IsFin(a) /\ IsFin(b) THEN a.n * b.d <= b.n * a.d
    ELSE IF a.k = "ninf" \/ b.k = "pinf" THEN TRUE
    ELSE FALSE

\* a > b on numbers; any comparison with NaN is false
RGt(a, b) ==
    IF IsNaN(a) \/ IsNaN(b) THEN FALSE ELSE ~RLeq(a, b)

\* ---------------------------------------------------------------- series
\* A series is a sequence of numbers; a mask is a sequence of booleans.
RECURSIVE SumFrom(_, _)
SumFrom(xs, i) ==
    IF i > Len(xs) THEN Zero ELSE RAdd(xs[i], SumFrom(xs, i + 1))

Sum(xs) == SumFrom(xs, 1)

\* ys[mask]: the elements of xs at the indices where mask is true
RECURSIVE WhereFrom(_, _, _)
WhereFrom(xs, mask, i) ==
    IF i > Len(xs) THEN <<>>
    ELSE IF mask[i] THEN <<xs[i]>> \o WhereFrom(xs, mask, i + 1)
    ELSE WhereFrom(xs, mask, i + 1)

Where(xs, mask) == WhereFrom(xs, mask, 1)

\* mask.sum()
CountTrue(mask) == Cardinality({i \in 1..Len(mask) : mask[i]})

\* WindowMask with the bounds left out of the window (> and <)
WindowMask_Open(ts, lo, hi) == [i \in 1..Len(ts) |-> ts[i] > lo /\ ts[i] < hi]

\* (ts >= lo) & (ts <= hi): the closed window
WindowMask(ts, lo, hi) == [i \in 1..Len(ts) |-> ts[i] >= lo /\ ts[i] <= hi]

DropNaN(xs) == Where(xs, [i \in 1..Len(xs) |-> ~IsNaN(xs[i])])

\* pandas Series.mean(): NaN skipped, NaN when nothing is left
SeriesMean(xs) ==
    LET v == DropNaN(xs)
    IN IF Len(v) = 0 THEN NaN ELSE RDiv(Sum(v), Num(Len(v)))

\* the square of pandas Series.std(): NaN skipped, divisor n - 1
SeriesVar(xs) ==
    LET v == DropNaN(xs)
        m == SeriesMean(xs)
        sq == [i \in 1..Len(v) |-> RMul(RSub(v[i], m), RSub(v[i], m))]
    IN IF Len(v) < 2 THEN NaN ELSE RDiv(Sum(sq), Num(Len(v) - 1))

\* numpy mean of an array: NaN propagates
ArrayMean(xs) == RDiv(Sum(xs), Num(Len(xs)))

AllFinite(xs) == \A i \in 1..Len(xs) : IsFin(xs[i])

ToNums(ts) == [i \in 1..Len(ts) |-> Num(ts[i])]

\* a raised exception, and a returned value
Raise(msg) == [ok |-> FALSE, err |-> msg, val |-> <<>>]
Return(v) == [ok |-> TRUE, err |-> "", val |-> v]

\* ------------------------------------------------ correct_photobleaching
\* slope of the bleaching line (line 69)
BleachSlope(pre_mean, post_mean, pre_interval, post_interval) ==
    RDiv(RSub(post_mean, pre_mean), Num(post_interval[2] - pre_interval[1]))

\* intercept of the bleaching line (line 70)
BleachIntercept(pre_mean, slope, pre_interval) ==
    RSub(pre_mean, RMul(slope, Num(pre_interval[1])))

\* the guard of line 64
BleachWindowsTooShort(pre_mask, post_mask) ==
    CountTrue(pre_mask) < MinWindowSamples \/ CountTrue(post_mask) < MinWindowSamples

correct_photobleaching(ts, ys, pre_interval, post_interval) ==
    LET pre_mask == WindowMask(ts, pre_interval[1], pre_interval[2])
        post_mask == WindowMask(ts, post_interval[1], post_interval[2])
        pre_mean == SeriesMean(Where(ys, pre_mask))
        post_mean == SeriesMean(Where(ys, post_mask))
        slope == BleachSlope(pre_mean, post_mean, pre_interval, post_interval)
        intercept == BleachIntercept(pre_mean, slope, pre_interval)
    IN IF BleachWindowsTooShort(pre_mask, post_mask)
       THEN Raise("Baseline intervals too short for photobleaching correction.")
       ELSE Return([i \in 1..Len(ys) |->
                      RSub(ys[i], RAdd(RMul(slope, Num(ts[i])), intercept))])

\* -------------------------------------------------------- correct_motion
\* numpy.linalg.lstsq of A = [x, 1] against y, on finite data: the
\* least-squares (slope, intercept), the minimum-norm one when x is constant
Lstsq(x, y) ==
    LET xbar == ArrayMean(x)
        ybar == ArrayMean(y)
        sxx == Sum([i \in 1..Len(x) |-> RMul(RSub(x[i], xbar), RSub(x[i], xbar))])
        sxy == Sum([i \in 1..Len(x) |-> RMul(RSub(x[i], xbar), RSub(y[i], ybar))])
        c == x[1]
        norm == RAdd(RMul(c, c), Num(1))
    IN IF sxx # Zero
       THEN LET b == RDiv(sxy, sxx) IN <<b, RSub(ybar, RMul(b, xbar))>>
       ELSE <<RDiv(RMul(c, ybar), norm), RDiv(ybar, norm)>>

\* svdFails: whether LAPACK reports no convergence on non-finite input (it
\* raises LinAlgError) or returns NaN coefficients; the build decides
correct_motion(fluo465, fluo405, svdFails) ==
    IF Len(fluo405) < MinRows
    THEN Raise("Not enough data points for motion correction.")
    ELSE IF ~(AllFinite(fluo405) /\ AllFinite(fluo465))
    THEN (IF svdFails THEN Raise("SVD did not converge in Linear Least Squares")
          ELSE Return([maf |-> fluo405,
                       mac |-> [i \in 1..Len(fluo465) |-> NaN]]))
    ELSE LET coeffs == Lstsq(fluo405, fluo465)
             fitted == [i \in 1..Len(fluo405) |->
                          RAdd(RMul(coeffs[1], fluo405[i]), coeffs[2])]
             fmean == ArrayMean(fitted)
         IN Return([maf |-> fluo405,
                    mac |-> [i \in 1..Len(fluo465) |->
                               RSub(fluo465[i], RSub(fitted[i], fmean))]])

\* --------------------------------------------------- transform_to_zscore
\* the guard of line 99
BaselineTooShort(mask) == CountTrue(mask) < MinWindowSamples

\* The Z-score of sample i is dev[i] / sqrt(sd2): the deviation from the
\* baseline mean and the baseline variance (divisor n - 1) are returned in
\* place of the quotient, which is irrational in general.
transform_to_zscore(ts, ys, baseline_interval) ==
    LET mask == WindowMask(ts, baseline_interval[1], baseline_interval[2])
        mu == SeriesMean(Where(ys, mask))
        sd2 == SeriesVar(Where(ys, mask))
    IN IF BaselineTooShort(mask)
       THEN Raise("Baseline interval too short for Z-score.")
       ELSE IF sd2 = Zero
       THEN Raise("Cannot Z-score (std=0).")
       ELSE Return([dev |-> [i \in 1..Len(ys) |-> RSub(ys[i], mu)], sd2 |-> sd2])

\* ----------------------------------------------------------- input files
\* A raw CSV export: its stem (the file is <name>.csv), the index of the
\* first line that names the columns, the keywords found among the column
\* names, and the data columns; a NaN cell is an empty cell.
None == -1
Required == {"time", "gfp", "tomato"}

RawFile(name, hdr, cols, time, gfp, tomato) ==
    [name |-> name, hdr |-> hdr, cols |-> cols, time |-> time,
     gfp |-> gfp, tomato |-> tomato]

Nums(xs) == [i \in 1..Len(xs) |-> Num(xs[i])]
Ticks(t0, n) == [i \in 1..n |-> t0 + i - 1]

Gfp12 == Nums(<<30, 32, 31, 29, 28, 30, 11, 9, 7, 8, 10, 6>>)
Tomato12 == Nums(<<11, 9, 10, 11, 9, 10, 10, 11, 9, 10, 11, 9>>)
Gfp14 == Nums(<<30, 32, 31, 29, 28, 30, 20, 20, 10, 3, 4, 6, 2, 5>>)
Tomato14 == Nums(<<11, 9, 10, 11, 9, 10, 10, 10, 10, 11, 9, 10, 11, 9>>)

KGood == RawFile("good", 0, Required, Ticks(0, 12), Gfp12, Tomato12)
KLong == RawFile("long", 3, Required, Ticks(0, 14), Gfp14, Tomato14)
KNoHdr == RawFile("nohdr", 25, Required, Ticks(0, 12), Gfp12, Tomato12)
KNoCol == RawFile("nocol", 0, {"time", "gfp"}, Ticks(0, 12), Gfp12, Tomato12)
KShort == RawFile("short", 0, Required, Ticks(0, 12),
                  [Gfp12 EXCEPT ![6] = NaN, ![7] = NaN], [Tomato12 EXCEPT ![8] = NaN])
KLate == RawFile("late", 0, Required, Ticks(1, 12), Gfp12, Tomato12)
KInfPre == RawFile("infpre", 0, Required, Ticks(0, 12),
                   [Gfp12 EXCEPT ![2] = PInf], Tomato12)
KInf405 == RawFile("inf405", 0, Required, Ticks(0, 12),
                   Gfp12, [Tomato12 EXCEPT ![6] = PInf])
KConst == RawFile("const", 0, Required, Ticks(0, 12),
                  [i \in 1..12 |-> Num(20)], [i \in 1..12 |-> Num(10)])

ControlKinds == {KGood, KLong, KNoHdr, KNoCol, KShort, KLate, KInfPre, KInf405, KConst}
TestKinds == {KGood, KLate}

\* process_folder's nan_ratio_threshold=0.2; main never passes another
DefaultNanRatioThreshold == Rat(1, 5)

\* the command line: windows and display bounds in ticks; the NaN-ratio
\* threshold is no option of it
Config(base, pre, post_start, post_end, lower, upper) ==
    [baseline |-> base, pre |-> pre, post_start_offset |-> post_start,
     post_end_offset |-> post_end, nan_ratio_threshold |-> DefaultNanRatioThreshold,
     plot_lower |-> lower, plot_upper |-> upper]

\* ------------------------------------------------------------ file names
\* A processed file's name is kept as its "-"-separated parts, ".csv" left out.
OutName(animal_name) == <<animal_name, "phmtry">>

\* glob "*-phmtry.csv"
IsProcessedName(name) == Len(name) >= 2 /\ name[Len(name)] = "phmtry"

\* os.path.basename(fpath).split("-")[0]
AnimalOf(name) == name[1]

\* A processed file: valid says whether it holds the columns time and
\* fluo465-zsc; zsc[i] / sqrt(sd2) is the stored Z-score of row i.  Writing
\* a column with to_csv and reading it back with read_csv returns the same
\* numbers (shortest round-trip repr; NaN as an empty cell), so the columns
\* are kept as written.
Processed(name, valid, time, zsc, sd2) ==
    [name |-> name, valid |-> valid, time |-> time, zsc |-> zsc, sd2 |-> sd2]

\* -------------------------------------------- load_and_standardize_csv
detect_header_line(file) ==
    IF file.hdr < max_lines /\ "time" \in file.cols
       /\ ("gfp" \in file.cols \/ "tomato" \in file.cols)
    THEN file.hdr ELSE None

load_and_standardize_csv(file) ==
    LET keep == [i \in 1..Len(file.time) |->
                   ~IsNaN(file.gfp[i]) /\ ~IsNaN(file.tomato[i])]
    IN IF detect_header_line(file) = None
       THEN Raise("Header line not detected (missing Time/GFP/Tomato keywords).")
       ELSE IF Required \ file.cols # {}
       THEN Raise("Required columns missing")
       ELSE Return([time |-> Where(file.time, keep), F465 |-> Where(file.gfp, keep),
                    AF405 |-> Where(file.tomato, keep)])

\* ------------------------------------------------------- load_group_data
SetMin(S) == CHOOSE m \in S : \A x \in S : m <= x
SetMax(S) == CHOOSE m \in S : \A x \in S : m >= x

RECURSIVE SortedSeq(_)
SortedSeq(S) ==
    IF S = {} THEN <<>> ELSE <<SetMin(S)>> \o SortedSeq(S \ {SetMin(S)})

Range(f) == {f[i] : i \in DOMAIN f}

\* df["time"].round().astype(int): a time of t ticks, t / TicksPerSec
\* seconds, rounded to the nearest second, a tie to the even one
RoundToSecond(t) ==
    LET q == t \div TicksPerSec
        r == t % TicksPerSec
    IN IF 2 * r < TicksPerSec THEN q
       ELSE IF 2 * r > TicksPerSec THEN q + 1
       ELSE IF q % 2 = 0 THEN q ELSE q + 1

\* lines 248-249: the rows inside the display window, the upper bound
\* clamped to the animal's own last time
DisplayMask(time, plot_lower_sec, plot_upper_sec) ==
    LET last == SetMax(Range(time))
        upper_limit == IF plot_upper_sec < last THEN plot_upper_sec ELSE last
    IN WindowMask(time, plot_lower_sec, upper_limit)

\* lines 255-259: one animal's rows binned to whole seconds, the rows of a
\* second averaged (NaN skipped), sorted by second
BinAnimal(file, mask) ==
    LET time == Where(file.time, mask)
        zsc == Where(file.zsc, mask)
        secs == [i \in 1..Len(time) |-> RoundToSecond(time[i])]
        keys == SortedSeq(Range(secs))
    IN [name |-> AnimalOf(file.name), sd2 |-> file.sd2, time |-> keys,
        val |-> [j \in 1..Len(keys) |->
                   SeriesMean(Where(zsc, [i \in 1..Len(secs) |-> secs[i] = keys[j]]))]]

\* lines 241-260: the animals kept, in the order of the files
RECURSIVE AnimalTables(_, _, _)
AnimalTables(files, plot_lower_sec, plot_upper_sec) ==
    IF files = <<>> THEN <<>>
    ELSE LET f == Head(files)
             rest == AnimalTables(Tail(files), plot_lower_sec, plot_upper_sec)
             mask == DisplayMask(f.time, plot_lower_sec, plot_upper_sec)
         IN IF ~f.valid \/ Len(f.time) = 0 THEN rest
            ELSE IF CountTrue(mask) < MinRows THEN rest
            ELSE <<BinAnimal(f, mask)>> \o rest

\* A table: the animal columns' names and baseline variances, and the rows
\* [time, cells], a missing cell being NaN.
TableOf(a) ==
    [names |-> <<a.name>>, sd2 |-> <<a.sd2>>,
     rows |-> [j \in 1..Len(a.time) |-> [time |-> a.time[j], cells |-> <<a.val[j]>>]]]

\* OuterKeys as how="left" would have it
OuterKeys_Left(left, right) == SortedSeq(left)

\* the keys of pd.merge(..., how="outer"): the union, sorted
OuterKeys(left, right) == SortedSeq(left \cup right)

\* pd.merge(merged, d, on="time", how="outer")
Merge(merged, d) ==
    LET ltimes == {merged.rows[j].time : j \in 1..Len(merged.rows)}
        rtimes == Range(d.time)
        keys == OuterKeys(ltimes, rtimes)
        blank == [c \in 1..Len(merged.names) |-> NaN]
        lcells(t) == IF t \in ltimes
                     THEN merged.rows[CHOOSE j \in 1..Len(merged.rows) :
                                         merged.rows[j].time = t].cells
                     ELSE blank
        rcell(t) == IF t \in rtimes
                    THEN d.val[CHOOSE j \in 1..Len(d.time) : d.time[j] = t]
                    ELSE NaN
    IN [names |-> Append(merged.names, d.name), sd2 |-> Append(merged.sd2, d.sd2),
        rows |-> [j \in 1..Len(keys) |->
                    [time |-> keys[j], cells |-> Append(lcells(keys[j]), rcell(keys[j]))]]]

RECURSIVE MergeAll(_, _)
MergeAll(merged, rest) ==
    IF rest = <<>> THEN merged ELSE MergeAll(Merge(merged, Head(rest)), Tail(rest))

\* drop_duplicates(subset=["time"]): the first row of each time is kept
DropDuplicates(rows) ==
    Where(rows, [j \in 1..Len(rows) |-> \A i \in 1..(j - 1) : rows[i].time # rows[j].time])

\* sort_values("time") on rows of distinct times
SortByTime(rows) ==
    LET keys == SortedSeq({rows[j].time : j \in 1..Len(rows)})
    IN [j \in 1..Len(keys) |-> rows[CHOOSE i \in 1..Len(rows) : rows[i].time = keys[j]]]

load_group_data(files, plot_lower_sec, plot_upper_sec) ==
    LET all_df == AnimalTables(files, plot_lower_sec, plot_upper_sec)
        merged == MergeAll(TableOf(Head(all_df)), Tail(all_df))
    IN IF files = <<>> THEN Raise("No processed '*-phmtry.csv' files found")
       ELSE IF all_df = <<>> THEN Raise("No valid processed files in folder")
       ELSE Return([merged EXCEPT !.rows = SortByTime(DropDuplicates(merged.rows))])

\* glob: the files of a folder in an order the file system chooses
Listings(S) ==
    {s \in [1..Cardinality(S) -> S] : \A i, j \in 1..Cardinality(S) : s[i] = s[j] => i = j}

\* -------------------------------------------------- plot_control_vs_test
\* np.nanmean of a row; NaN when every cell is missing
NanMean(cells) == SeriesMean(cells)

\* the square of np.nanstd of a row: divisor the number of cells present
NanVar(cells) ==
    LET v == DropNaN(cells)
        m == NanMean(cells)
    IN IF Len(v) = 0 THEN NaN
       ELSE RDiv(Sum([i \in 1..Len(v) |-> RMul(RSub(v[i], m), RSub(v[i], m))]),
                 Num(Len(v)))

\* the square of the number under np.sqrt in lines 277 and 282
SemDivisor(cells) == Len(cells)

\* lines 274-277 for one table whose columns are plain Z-scores (sd2 = 1):
\* per row the time, the mean and the square of the SEM
GroupCurve(data) ==
    [j \in 1..Len(data.rows) |->
        [time |-> data.rows[j].time,
         mean |-> NanMean(data.rows[j].cells),
         sem2 |-> RDiv(NanVar(data.rows[j].cells),
                       Num(SemDivisor(data.rows[j].cells)))]]

plot_control_vs_test(control_data, test_data) ==
    [control |-> GroupCurve(control_data), test |-> GroupCurve(test_data)]

\* ================================================================ state
VARIABLES
    cfg,         \* the parsed command line (main, lines 328-338)
    svdRaises,   \* whether this build's LAPACK raises on a non-finite matrix
    inFolder,    \* group -> the raw files of its input folder
    outFolder,   \* group -> the processed files of its output folder
    pcMain,      \* where main is
    stage,       \* where process_folder is
    todo,        \* process_folder: the files the loop has not reached
    cur,         \* process_folder: fpath, the file being processed
    df,          \* process_folder: the data frame of the current file
    n_saved,     \* process_folder: the counter
    n_ret,       \* main: n_control and n_test (None before the call returns)
    groupData,   \* main: control_data and test_data
    svg,         \* whether this run wrote the comparison plot
    diag,        \* the group-level diagnostics printed
    trails,      \* observer: group -> file -> the stages run on it, in order
    outcome,     \* observer: group -> file -> how its processing ended
    written,     \* observer: group -> names of the files this run wrote
    aggPc,       \* SpecAgg: where the aggregation is
    aggWin,      \* SpecAgg: the display window
    aggFiles,    \* SpecAgg: group -> the processed files, in glob order
    aggData,     \* SpecAgg: group -> the table load_group_data returned
    aggCurves    \* SpecAgg: what plot_control_vs_test computed

pipeVars == <<cfg, svdRaises, inFolder, outFolder, pcMain, stage, todo, cur, df,
              n_saved, n_ret, groupData, svg, diag, trails, outcome, written>>
aggVars == <<aggPc, aggWin, aggFiles, aggData, aggCurves>>
vars == <<pipeVars, aggVars>>

Groups == {"Control", "Test"}

NoTable == [names |-> <<>>, sd2 |-> <<>>, rows |-> <<>>]
NoDf == [time |-> <<>>, F465 |-> <<>>, AF405 |-> <<>>, pbc465 |-> <<>>, pbc405 |-> <<>>,
         maf405 |-> <<>>, mac465 |-> <<>>, zsc |-> <<>>, sd2 |-> NaN]
NoFile == RawFile("", None, {}, <<>>, <<>>, <<>>)

\* processed files a run may find in its output folders: the output of an
\* earlier run for an animal this run skips, for one it processes again, for
\* one it does not have, and a file without the Z-score column
StaleZ == Nums(<<2, 1, 0, -1, -2, 0, 1, 2, 0, -1, 1, 0>>)
StaleLate == Processed(OutName("late"), TRUE, Ticks(1, 12), StaleZ, Num(1))
StaleGood == Processed(OutName("good"), TRUE, Ticks(0, 12), StaleZ, Num(1))
StaleOld == Processed(OutName("old"), TRUE, Ticks(2, 12), StaleZ, Num(1))
StaleBad == Processed(OutName("bad"), FALSE, <<>>, <<>>, NaN)

CleanOut == [Control |-> {}, Test |-> {}]
UsedOut == [Control |-> {StaleLate, StaleGood}, Test |-> {StaleOld, StaleBad}]

ConfigA == Config(<<3, 7>>, <<0, 4>>, 4, 0, 0, 100)
ConfigB == Config(<<5, 8>>, <<0, 4>>, 4, 0, 0, 100)
ConfigC == Config(<<3, 7>>, <<0, 4>>, 4, 0, 3, 12)

\* the runs explored: a command line, a LAPACK build, the output folders found
Scenario(c, svd, out) == [cfg |-> c, svd |-> svd, out |-> out]
Scenarios == {Scenario(ConfigA, TRUE, CleanOut), Scenario(ConfigA, FALSE, UsedOut),
              Scenario(ConfigB, TRUE, UsedOut), Scenario(ConfigC, FALSE, CleanOut),
              Scenario(ConfigC, TRUE, UsedOut)}

Folders(kinds) == {S \in SUBSET kinds : Cardinality(S) <= MaxFiles}

Names(files) == {f.name : f \in files}

AggIdle ==
    /\ aggPc = "off"
    /\ aggWin = <<0, 0>>
    /\ aggFiles = [g \in Groups |-> <<>>]
    /\ aggData = [g \in Groups |-> NoTable]
    /\ aggCurves = [control |-> <<>>, test |-> <<>>]

Init ==
    /\ \E sc \in Scenarios :
         cfg = sc.cfg /\ svdRaises = sc.svd /\ outFolder = sc.out
    /\ inFolder \in [Control : Folders(ControlKinds), Test : Folders(TestKinds)]
    /\ pcMain = "control"
    /\ stage = "call"
    /\ todo = {}
    /\ cur = NoFile
    /\ df = NoDf
    /\ n_saved = 0
    /\ n_ret = [g \in Groups |-> None]
    /\ groupData = [g \in Groups |-> NoTable]
    /\ svg = FALSE
    /\ diag = {}
    /\ trails = [g \in Groups |-> [n \in Names(inFolder[g]) |-> <<>>]]
    /\ outcome = [g \in Groups |-> [n \in Names(inFolder[g]) |-> "Pending"]]
    /\ written = [g \in Groups |-> {}]
    /\ AggIdle

\* ------------------------------------------------------- process_folder
\* the group whose folder process_folder is working on
Group == IF pcMain = "control" THEN "Control" ELSE "Test"
InProcessFolder == pcMain \in {"control", "test"}
AfterCall == IF pcMain = "control" THEN "test" ELSE "check"

\* the loop's next state after a stage that did not fail
Pass(name, tag, next) ==
    /\ trails' = [trails EXCEPT ![Group][name] = Append(@, tag)]
    /\ stage' = next
    /\ UNCHANGED <<outcome, todo>>

\* Skip with the gate's continue missing: the record goes on to motion correction
Skip_FallsThrough(name, tag, why) ==
    /\ trails' = [trails EXCEPT ![Group][name] = Append(Append(@, tag), "FAIL")]
    /\ outcome' = [outcome EXCEPT ![Group][name] = why]
    /\ stage' = (IF tag = "gate" THEN "motion" ELSE "loop")
    /\ UNCHANGED todo

\* Skip with the exception not caught: it leaves process_folder
Skip_Raises(name, tag, why) ==
    /\ trails' = [trails EXCEPT ![Group][name] = Append(Append(@, tag), "FAIL")]
    /\ outcome' = [outcome EXCEPT ![Group][name] = why]
    /\ stage' = "raised"
    /\ UNCHANGED todo

\* Skip with break in place of continue: the loop ends
Skip_Breaks(name, tag, why) ==
    /\ trails' = [trails EXCEPT ![Group][name] = Append(Append(@, tag), "FAIL")]
    /\ outcome' = [outcome EXCEPT ![Group][name] = why]
    /\ stage' = "loop"
    /\ todo' = {}

\* a "-> skip" print and its continue: the loop goes on to the next file
Skip(name, tag, why) ==
    /\ trails' = [trails EXCEPT ![Group][name] = Append(Append(@, tag), "FAIL")]
    /\ outcome' = [outcome EXCEPT ![Group][name] = why]
    /\ stage' = "loop"
    /\ UNCHANGED todo

\* lines 166-173
PF_Call ==
    /\ InProcessFolder /\ stage = "call"
    /\ IF inFolder[Group] = {}
       THEN /\ diag' = diag \cup {<<Group, "No CSV files found">>}
            /\ n_ret' = [n_ret EXCEPT ![Group] = 0]
            /\ pcMain' = AfterCall
            /\ UNCHANGED <<stage, todo, n_saved>>
       ELSE /\ todo' = inFolder[Group]
            /\ n_saved' = 0
            /\ stage' = "loop"
            /\ UNCHANGED <<diag, n_ret, pcMain>>
    /\ UNCHANGED <<cfg, svdRaises, inFolder, outFolder, cur, df, groupData, svg,
                   trails, outcome, written, aggVars>>

\* lines 174-182: the loop takes the next file, in glob's order, and loads it
PF_Load ==
    /\ InProcessFolder /\ stage = "loop"
    /\ \E f \in todo :
         LET r == load_and_standardize_csv(f)
         IN /\ cur' = f
            /\ todo' = todo \ {f}
            /\ trails' = [trails EXCEPT ![Group][f.name] =
                            IF r.ok THEN Append(@, "load")
                            ELSE Append(Append(@, "load"), "FAIL")]
            /\ IF r.ok
               THEN /\ df' = [NoDf EXCEPT !.time = r.val.time, !.F465 = r.val.F465,
                                          !.AF405 = r.val.AF405]
                    /\ stage' = "rows"
                    /\ UNCHANGED outcome
               ELSE /\ outcome' = [outcome EXCEPT ![Group][f.name] = "Skipped: load"]
                    /\ stage' = "loop"
                    /\ UNCHANGED df
    /\ UNCHANGED <<cfg, svdRaises, inFolder, outFolder, pcMain, n_saved, n_ret,
                   groupData, svg, diag, written, aggVars>>

\* lines 184-186
PF_Rows ==
    /\ InProcessFolder /\ stage = "rows"
    /\ IF Len(df.time) = 0 \/ Len(df.time) < MinRows
       THEN Skip(cur.name, "rows", "Skipped: too few rows")
       ELSE Pass(cur.name, "rows", "pb")
    /\ UNCHANGED <<cfg, svdRaises, inFolder, outFolder, pcMain, cur, df, n_saved,
                   n_ret, groupData, svg, diag, written, aggVars>>

\* line 190
PostInterval(time) ==
    LET max_time == SetMax(Range(time))
    IN <<max_time - cfg.post_start_offset, max_time - cfg.post_end_offset>>

\* lines 188-198
PF_Debleach ==
    /\ InProcessFolder /\ stage = "pb"
    /\ LET post_interval == PostInterval(df.time)
           r465 == correct_photobleaching(df.time, df.F465, cfg.pre, post_interval)
           r405 == correct_photobleaching(df.time, df.AF405, cfg.pre, post_interval)
       IN IF ~r465.ok
          THEN Skip(cur.name, "pb", "Skipped: photobleaching") /\ UNCHANGED df
          ELSE IF ~r405.ok
          THEN /\ Skip(cur.name, "pb", "Skipped: photobleaching")
               /\ df' = [df EXCEPT !.pbc465 = r465.val]
          ELSE /\ df' = [df EXCEPT !.pbc465 = r465.val, !.pbc405 = r405.val]
               /\ Pass(cur.name, "pb", "gate")
    /\ UNCHANGED <<cfg, svdRaises, inFolder, outFolder, pcMain, cur, n_saved,
                   n_ret, groupData, svg, diag, written, aggVars>>

\* isna().mean() of one column
NaFraction(xs) ==
    RDiv(Num(Cardinality({i \in 1..Len(xs) : IsNaN(xs[i])})), Num(Len(xs)))

\* line 200: df[["fluo465-pbc", "fluo405-pbc"]].isna().mean().mean()
NanRatio(d) == RDiv(RAdd(NaFraction(d.pbc465), NaFraction(d.pbc405)), Num(2))

\* TooManyNaNs with < in place of >
TooManyNaNs_Below(nan_ratio, nan_ratio_threshold) == RGt(nan_ratio_threshold, nan_ratio)

\* line 201
TooManyNaNs(nan_ratio, nan_ratio_threshold) == RGt(nan_ratio, nan_ratio_threshold)

\* lines 200-203
PF_Gate ==
    /\ InProcessFolder /\ stage = "gate"
    /\ IF TooManyNaNs(NanRatio(df), cfg.nan_ratio_threshold)
       THEN Skip(cur.name, "gate", "Skipped: too many NaNs")
       ELSE Pass(cur.name, "gate", "motion")
    /\ UNCHANGED <<cfg, svdRaises, inFolder, outFolder, pcMain, cur, df, n_saved,
                   n_ret, groupData, svg, diag, written, aggVars>>

\* lines 205-213
PF_Motion ==
    /\ InProcessFolder /\ stage = "motion"
    /\ LET r == correct_motion(df.pbc465, df.pbc405, svdRaises)
       IN IF ~r.ok
          THEN Skip(cur.name, "motion", "Skipped: motion correction") /\ UNCHANGED df
          ELSE /\ df' = [df EXCEPT !.maf405 = r.val.maf, !.mac465 = r.val.mac]
               /\ Pass(cur.name, "motion", "zscore")
    /\ UNCHANGED <<cfg, svdRaises, inFolder, outFolder, pcMain, cur, n_saved,
                   n_ret, groupData, svg, diag, written, aggVars>>

\* lines 215-221
PF_ZScore ==
    /\ InProcessFolder /\ stage = "zscore"
    /\ LET r == transform_to_zscore(df.time, df.mac465, cfg.baseline)
       IN IF ~r.ok
          THEN Skip(cur.name, "zscore", "Skipped: Z-score: " \o r.err) /\ UNCHANGED df
          ELSE /\ df' = [df EXCEPT !.zsc = r.val.dev, !.sd2 = r.val.sd2]
               /\ Pass(cur.name, "zscore", "save")
    /\ UNCHANGED <<cfg, svdRaises, inFolder, outFolder, pcMain, cur, n_saved,
                   n_ret, groupData, svg, diag, written, aggVars>>

\* df.to_csv(out_csv): the file of that name is created or replaced
WriteFile(folder, file) == {f \in folder : f.name # file.name} \cup {file}

\* lines 223-227
PF_Save ==
    /\ InProcessFolder /\ stage = "save"
    /\ trails' = [trails EXCEPT ![Group][cur.name] = Append(@, "save")]
    /\ LET out_csv == OutName(cur.name)
       IN /\ outFolder' = [outFolder EXCEPT ![Group] =
                 WriteFile(@, Processed(out_csv, TRUE, df.time, df.zsc, df.sd2))]
          /\ written' = [written EXCEPT ![Group] = @ \cup {out_csv}]
    /\ n_saved' = n_saved + 1
    /\ outcome' = [outcome EXCEPT ![Group][cur.name] = "Persisted"]
    /\ stage' = "loop"
    /\ UNCHANGED <<cfg, svdRaises, inFolder, pcMain, todo, cur, df, n_ret, groupData,
                   svg, diag, aggVars>>

\* line 229, and the assignment of lines 341 and 351
PF_Return ==
    /\ InProcessFolder /\ stage = "loop" /\ todo = {}
    /\ n_ret' = [n_ret EXCEPT ![Group] = n_saved]
    /\ pcMain' = AfterCall
    /\ stage' = "call"
    /\ UNCHANGED <<cfg, svdRaises, inFolder, outFolder, todo, cur, df, n_saved,
                   groupData, svg, diag, trails, outcome, written, aggVars>>

\* ------------------------------------------------------------------ main
\* NothingToPlot with "and" in place of "or"
NothingToPlot_Both(n_control, n_test) == n_control = 0 /\ n_test = 0

\* line 360
NothingToPlot(n_control, n_test) == n_control = 0 \/ n_test = 0

\* lines 360-362
Main_Check ==
    /\ pcMain = "check"
    /\ IF NothingToPlot(n_ret.Control, n_ret.Test)
       THEN /\ diag' = diag \cup {<<"main", "Not enough processed files to plot">>}
            /\ pcMain' = "done"
       ELSE /\ pcMain' = "load_control"
            /\ UNCHANGED diag
    /\ UNCHANGED <<cfg, svdRaises, inFolder, outFolder, stage, todo, cur, df, n_saved,
                   n_ret, groupData, svg, trails, outcome, written, aggVars>>

\* glob.glob(os.path.join(folder, "*-phmtry.csv"))
GlobProcessed(folder) == Listings({f \in folder : IsProcessedName(f.name)})

\* lines 366, 367 and the except of line 370
Main_Load(g) ==
    /\ pcMain = (IF g = "Control" THEN "load_control" ELSE "load_test")
    /\ \E files \in GlobProcessed(outFolder[g]) :
         LET r == load_group_data(files, cfg.plot_lower, cfg.plot_upper)
         IN IF r.ok
            THEN /\ groupData' = [groupData EXCEPT ![g] = r.val]
                 /\ pcMain' = (IF g = "Control" THEN "load_test" ELSE "plot")
                 /\ UNCHANGED diag
            ELSE /\ diag' = diag \cup {<<"main", "Plotting failed">>}
                 /\ pcMain' = "done"
                 /\ UNCHANGED groupData
    /\ UNCHANGED <<cfg, svdRaises, inFolder, outFolder, stage, todo, cur, df, n_saved,
                   n_ret, svg, trails, outcome, written, aggVars>>

\* lines 368-369: the curves are drawn and the SVG is written (what
\* plot_control_vs_test computes is explored in SpecAgg)
Main_Plot ==
    /\ pcMain = "plot"
    /\ svg' = TRUE
    /\ pcMain' = "done"
    /\ UNCHANGED <<cfg, svdRaises, inFolder, outFolder, stage, todo, cur, df, n_saved,
                   n_ret, groupData, diag, trails, outcome, written, aggVars>>

Next ==
    \/ PF_Call
    \/ PF_Load
    \/ PF_Rows
    \/ PF_Debleach
    \/ PF_Gate
    \/ PF_Motion
    \/ PF_ZScore
    \/ PF_Save
    \/ PF_Return
    \/ Main_Check
    \/ Main_Load("Control")
    \/ Main_Load("Test")
    \/ Main_Plot

Spec == Init /\ [][Next]_vars

\* ============================================ aggregation on given files
\* load_group_data and plot_control_vs_test applied, as lines 365-371 apply
\* them, to processed files drawn from a bounded set: columns of plain
\* Z-scores (sd2 = 1), on time axes that overlap, nest or are disjoint.
EveryTicks(t0, step, n) == [i \in 1..n |-> t0 + step * (i - 1)]

ZA == Nums(<<2, 1, 0, -1, -2, 0, 1, 2, 0, -1, 1, 0>>)
ZB == Nums(<<4, 3, 5, 4, 3, 5, 4, 3, 5, 4>>)
ZC == Nums(<<-1, 0, 1, 0, -1, 0, 1, 0, -1, 0>>)
ZGaps == [ZA EXCEPT ![3] = NaN, ![8] = NaN, ![9] = NaN]

A1 == Processed(OutName("a1"), TRUE, EveryTicks(0, 1, 12), ZA, Num(1))
A2 == Processed(OutName("a2"), TRUE, EveryTicks(20, 2, 10), ZB, Num(1))
A3 == Processed(OutName("a3"), TRUE, EveryTicks(6, 3, 10), ZC, Num(1))
A4 == Processed(OutName("a4"), TRUE, EveryTicks(0, 2, 9), SubSeq(ZB, 1, 9), Num(1))
A5 == Processed(OutName("a5"), FALSE, <<>>, <<>>, NaN)
A6 == Processed(OutName("a6"), TRUE, EveryTicks(1, 1, 12), ZGaps, Num(1))

AggKinds == {A1, A2, A3, A4, A5, A6}
AggWindows == {<<0, 100>>, <<2, 36>>}
AggTests == {<<A1>>, <<A2, A3>>}

\* the listings glob can return for the folders of at most n of the files
ListingsUpTo(kinds, n) ==
    UNION {Listings(S) : S \in {T \in SUBSET kinds : Cardinality(T) <= n}}

PipeIdle ==
    /\ cfg = ConfigA
    /\ svdRaises = FALSE
    /\ inFolder = [g \in Groups |-> {}]
    /\ outFolder = CleanOut
    /\ pcMain = "off"
    /\ stage = "off"
    /\ todo = {}
    /\ cur = NoFile
    /\ df = NoDf
    /\ n_saved = 0
    /\ n_ret = [g \in Groups |-> None]
    /\ groupData = [g \in Groups |-> NoTable]
    /\ svg = FALSE
    /\ diag = {}
    /\ trails = [g \in Groups |-> <<>>]
    /\ outcome = [g \in Groups |-> <<>>]
    /\ written = [g \in Groups |-> {}]

AggInit ==
    /\ PipeIdle
    /\ aggPc = "load"
    /\ aggWin \in AggWindows
    /\ \E c \in ListingsUpTo(AggKinds, MaxAnimals), t \in AggTests :
         aggFiles = [Control |-> c, Test |-> t]
    /\ aggData = [g \in Groups |-> NoTable]
    /\ aggCurves = [control |-> <<>>, test |-> <<>>]

\* lines 366-367, and the except of line 370 on a raise
AggLoad ==
    /\ aggPc = "load"
    /\ LET c == load_group_data(aggFiles.Control, aggWin[1], aggWin[2])
           t == load_group_data(aggFiles.Test, aggWin[1], aggWin[2])
       IN IF c.ok /\ t.ok
          THEN aggData' = [Control |-> c.val, Test |-> t.val] /\ aggPc' = "plot"
          ELSE aggPc' = "failed" /\ UNCHANGED aggData
    /\ UNCHANGED <<aggWin, aggFiles, aggCurves, pipeVars>>

\* line 368
AggPlot ==
    /\ aggPc = "plot"
    /\ aggCurves' = plot_control_vs_test(aggData.Control, aggData.Test)
    /\ aggPc' = "done"
    /\ UNCHANGED <<aggWin, aggFiles, aggData, pipeVars>>

AggNext == AggLoad \/ AggPlot

SpecAgg == AggInit /\ [][AggNext]_vars

\* =============================================================== claims
\* What the observers say of one file's processing.
FullTrail == <<"load", "rows", "pb", "gate", "motion", "zscore", "save">>

IsFailed(t) == Len(t) > 0 /\ t[Len(t)] = "FAIL"

\* the last stage run on a file whose trail t is not empty
LastStage(t) == IF IsFailed(t) THEN t[Len(t) - 1] ELSE t[Len(t)]

\* the stages ran in the pipeline's order, and none ran after a failure
TrailShape(t) ==
    \E k \in 0..Len(FullTrail) :
        \/ t = SubSeq(FullTrail, 1, k)
        \/ k \in 1..(Len(FullTrail) - 1) /\ t = Append(SubSeq(FullTrail, 1, k), "FAIL")

Count(t, tag) == Cardinality({i \in 1..Len(t) : t[i] = tag})

PersistedNames(g) == {n \in DOMAIN trails[g] : trails[g][n] = FullTrail}

StaleFiles == UsedOut.Control \cup UsedOut.Test

Returned(g) == pcMain # "off" /\ n_ret[g] # None

AllAttempted(g) == \A n \in DOMAIN outcome[g] : outcome[g][n] # "Pending"

\* the trail of the file process_folder is on, <<>> when it is on none
CurTrail ==
    IF InProcessFolder /\ cur.name \in DOMAIN trails[Group]
    THEN trails[Group][cur.name] ELSE <<>>

\* C1: a file's output is written in this run exactly when load, row check,
\* photobleaching correction, NaN gate, motion correction and Z-score ran in
\* that order and none failed; a file that failed at a stage has no output of
\* this run, and the count process_folder keeps and returns is the number of
\* files written.
C1_WrittenIffEveryStagePassed ==
    \A g \in Groups :
        /\ \A n \in DOMAIN trails[g] :
              /\ TrailShape(trails[g][n])
              /\ (OutName(n) \in written[g]) <=> (trails[g][n] = FullTrail)
              /\ IsFailed(trails[g][n]) =>
                    /\ OutName(n) \notin written[g]
                    /\ \A f \in outFolder[g] : f.name = OutName(n) => f \in StaleFiles
        /\ Returned(g) => n_ret[g] = Cardinality(PersistedNames(g))
        /\ (InProcessFolder /\ Group = g /\ stage # "call") =>
              n_saved = Cardinality(PersistedNames(g))

C1_Witness ==
    /\ pcMain = "test" /\ n_ret.Control = 1
    /\ \E n1, n2 \in DOMAIN trails.Control :
          /\ trails.Control[n1] = FullTrail
          /\ IsFailed(trails.Control[n2])
          /\ OutName(n1) \in written.Control
          /\ OutName(n2) \notin written.Control

\* what is left of process_folder's work: the files not reached, and the
\* stages not yet run on the current one
StageRank ==
    CASE stage = "rows" -> 6
      [] stage = "pb" -> 5
      [] stage = "gate" -> 4
      [] stage = "motion" -> 3
      [] stage = "zscore" -> 2
      [] stage = "save" -> 1
      [] OTHER -> 0

WorkLeft ==
    (IF pcMain = "control" THEN 200 ELSE IF pcMain = "test" THEN 100 ELSE 0)
    + (IF stage = "call" THEN 50 ELSE 0)
    + 8 * Cardinality(todo) + StageRank

\* the statements of process_folder a step can leave it at; each has a step
\* (an exception that left the function would leave it at none of them)
Statements == {"call", "loop", "rows", "pb", "gate", "motion", "zscore", "save"}

\* C4: whatever files fail and however, process_folder takes every file of
\* the folder exactly once, is never stopped by a failure (every step leaves
\* it at a statement with less work left), and returns the number of files
\* it wrote.
C4_EveryFileAttemptedOnce ==
    /\ \A g \in Groups : \A n \in DOMAIN trails[g] :
          /\ Count(trails[g][n], "load") <= 1
          /\ Returned(g) => Count(trails[g][n], "load") = 1 /\ outcome[g][n] # "Pending"
    /\ \A g \in Groups : Returned(g) => n_ret[g] = Cardinality(written[g])
    /\ InProcessFolder => stage \in Statements

C4_StepsConsumeWork == [][InProcessFolder => WorkLeft' < WorkLeft]_vars

Aggregating ==
    \/ pcMain \in {"load_control", "load_test", "plot"}
    \/ \E g \in Groups : groupData[g] # NoTable
    \/ svg

C5_State ==
    /\ Aggregating =>
          \A g \in Groups : AllAttempted(g) /\ Returned(g) /\ n_ret[g] > 0
    /\ pcMain \in {"check", "load_control", "load_test", "plot", "done"} =>
          \A g \in Groups : AllAttempted(g) /\ Returned(g)
    /\ (pcMain = "done" /\ (n_ret.Control = 0 \/ n_ret.Test = 0)) =>
          /\ <<"main", "Not enough processed files to plot">> \in diag
          /\ \A g \in Groups : groupData[g] = NoTable
          /\ ~svg

C5_Step ==
    [][(pcMain = "check" /\ (n_ret.Control = 0 \/ n_ret.Test = 0)) => pcMain' = "done"]_vars

NaNCells(d) ==
    Cardinality({i \in 1..Len(d.pbc465) : IsNaN(d.pbc465[i])})
    + Cardinality({i \in 1..Len(d.pbc405) : IsNaN(d.pbc405[i])})

AllCells(d) == Len(d.pbc465) + Len(d.pbc405)

\* NaNCells / AllCells > threshold
FractionExceeds(d, thr) == NaNCells(d) * thr.d > thr.n * AllCells(d)

\* C6: the gate runs after both channels are debleached and before motion
\* correction; a record whose share of NaN cells over both debleached
\* channels is above the threshold is skipped there and is never motion
\* corrected, Z-scored or written; one at or below it goes on to motion
\* correction.
C6_NanGate ==
    /\ \A g \in Groups : \A n \in DOMAIN trails[g] :
          /\ TrailShape(trails[g][n])
          /\ (Len(trails[g][n]) > 0 /\ LastStage(trails[g][n]) = "gate"
                /\ IsFailed(trails[g][n])) =>
                /\ outcome[g][n] = "Skipped: too many NaNs"
                /\ OutName(n) \notin written[g]
    /\ (Len(CurTrail) > 0 /\ LastStage(CurTrail) = "gate") =>
          /\ Len(df.pbc465) = Len(df.time) /\ Len(df.pbc405) = Len(df.time)
          /\ df.mac465 = <<>> /\ df.zsc = <<>>
          /\ IF FractionExceeds(df, cfg.nan_ratio_threshold)
             THEN IsFailed(CurTrail) /\ stage = "loop"
             ELSE ~IsFailed(CurTrail) /\ stage = "motion"

C6_Witness ==
    /\ Len(CurTrail) > 0 /\ LastStage(CurTrail) = "gate" /\ IsFailed(CurTrail)
    /\ FractionExceeds(df, cfg.nan_ratio_threshold)
    /\ cfg.nan_ratio_threshold = Rat(1, 5)

\* the samples of a time axis inside the closed window w
InWindow(ts, w) == Cardinality({i \in 1..Len(ts) : w[1] <= ts[i] /\ ts[i] <= w[2]})

PostWindow(ts) ==
    <<SetMax(Range(ts)) - cfg.post_start_offset, SetMax(Range(ts)) - cfg.post_end_offset>>

\* C8: photobleaching correction fails exactly when the closed pre-window
\* or the closed post-window holds fewer than 5 samples of the time axis,
\* Z-scoring fails for its baseline window when that holds fewer than 5 and
\* not for that reason when it holds 5 or more, and each such failure skips
\* the record.
C8_MinimumWindowSamples ==
    Len(CurTrail) > 0 =>
       /\ LastStage(CurTrail) = "pb" =>
             /\ IsFailed(CurTrail) <=>
                   (InWindow(df.time, cfg.pre) < 5 \/ InWindow(df.time, PostWindow(df.time)) < 5)
             /\ IsFailed(CurTrail) =>
                   /\ outcome[Group][cur.name] = "Skipped: photobleaching"
                   /\ stage = "loop"
       /\ LastStage(CurTrail) = "zscore" =>
             LET short == outcome[Group][cur.name]
                            = "Skipped: Z-score: Baseline interval too short for Z-score."
             IN /\ short <=> InWindow(df.time, cfg.baseline) < 5
                /\ short => IsFailed(CurTrail) /\ stage = "loop"
                /\ ~IsFailed(CurTrail) => InWindow(df.time, cfg.baseline) >= 5

C8_Witness ==
    /\ Len(CurTrail) > 0 /\ LastStage(CurTrail) = "pb" /\ ~IsFailed(CurTrail)
    /\ InWindow(df.time, cfg.pre) = 5
    /\ InWindow(df.time, PostWindow(df.time)) = 5
    /\ \E i \in 1..Len(df.time) : df.time[i] = cfg.pre[2]
    /\ \E i \in 1..Len(df.time) : df.time[i] = PostWindow(df.time)[1]

\* the mean of the values whose time is in the closed window w
MeanIn(ts, ys, w) ==
    RDiv(Sum(Where(ys, [i \in 1..Len(ts) |-> w[1] <= ts[i] /\ ts[i] <= w[2]])),
         Num(InWindow(ts, w)))

\* ys less the line through (x1, y1) and (x2, y2)
LessLine(ts, ys, x1, y1, x2, y2) ==
    LET slope == RDiv(RSub(y2, y1), Num(x2 - x1))
        intercept == RSub(y1, RMul(slope, Num(x1)))
    IN [i \in 1..Len(ys) |-> RSub(ys[i], RAdd(RMul(slope, Num(ts[i])), intercept))]

\* C2: with 5 samples or more in each window, the debleached channel is the
\* channel less the line through (pre-window start, pre_mean) and
\* (post-window start, post_mean).
C2_LineThroughWindowStarts ==
    (Len(CurTrail) > 0 /\ LastStage(CurTrail) = "pb" /\ ~IsFailed(CurTrail)) =>
        LET post == PostWindow(df.time)
        IN /\ df.pbc465 = LessLine(df.time, df.F465,
                                   cfg.pre[1], MeanIn(df.time, df.F465, cfg.pre),
                                   post[1], MeanIn(df.time, df.F465, post))
           /\ df.pbc405 = LessLine(df.time, df.AF405,
                                   cfg.pre[1], MeanIn(df.time, df.AF405, cfg.pre),
                                   post[1], MeanIn(df.time, df.AF405, post))

\* how one file's processing ends when nothing but the file, the command
\* line and the build decide it
ExpectedOutcome(file) ==
    LET l == load_and_standardize_csv(file)
        d == l.val
        post == PostWindow(d.time)
        p465 == correct_photobleaching(d.time, d.F465, cfg.pre, post)
        p405 == correct_photobleaching(d.time, d.AF405, cfg.pre, post)
        m == correct_motion(p465.val, p405.val, svdRaises)
        z == transform_to_zscore(d.time, m.val.mac, cfg.baseline)
    IN IF ~l.ok THEN "Skipped: load"
       ELSE IF Len(d.time) < 10 THEN "Skipped: too few rows"
       ELSE IF ~p465.ok \/ ~p405.ok THEN "Skipped: photobleaching"
       ELSE IF FractionExceeds([pbc465 |-> p465.val, pbc405 |-> p405.val],
                               cfg.nan_ratio_threshold)
       THEN "Skipped: too many NaNs"
       ELSE IF ~m.ok THEN "Skipped: motion correction"
       ELSE IF ~z.ok THEN "Skipped: Z-score: " \o z.err
       ELSE "Persisted"

JustReturned(g) ==
    IF g = "Control" THEN pcMain = "test" /\ stage = "call" ELSE pcMain = "check"

C10_OnlyThisRunsFiles ==
    \A g \in Groups :
        \A c \in 1..Len(groupData[g].names) :
            OutName(groupData[g].names[c]) \in written[g]

\* ---------------------------------------------------- claims on SpecAgg
\* the rows of a processed file inside the display window
RowsShown(f) == {i \in 1..Len(f.time) : aggWin[1] <= f.time[i] /\ f.time[i] <= aggWin[2]}

\* an animal is included when its file reads and shows 10 rows or more
IsIncluded(f) == f.valid /\ Cardinality(RowsShown(f)) >= 10

IncludedOf(files) == SelectSeq(files, IsIncluded)

\* the seconds at which an included animal has a binned sample
Seconds(f) == {RoundToSecond(f.time[i]) : i \in RowsShown(f)}

\* the animal's own value at second t: the mean of its rows of that second
BinValue(f, t) ==
    SeriesMean(Where(f.zsc, [i \in 1..Len(f.time) |->
                               i \in RowsShown(f) /\ RoundToSecond(f.time[i]) = t]))

AggGroups == {g \in Groups : aggPc \in {"plot", "done"}}

\* C7: the table's times are the union of the included animals' binned
\* seconds, strictly ascending, its columns are the included animals, and a
\* cell holds the animal's own binned value at a second the animal has and
\* is missing at every other second.
C7_OuterJoinOfIncludedAnimals ==
    \A g \in AggGroups :
        LET T == aggData[g]
            inc == IncludedOf(aggFiles[g])
        IN /\ Len(T.names) = Len(inc)
           /\ \A c \in 1..Len(inc) : T.names[c] = AnimalOf(inc[c].name)
           /\ \A j \in 1..(Len(T.rows) - 1) : T.rows[j].time < T.rows[j + 1].time
           /\ {T.rows[j].time : j \in 1..Len(T.rows)}
                 = UNION {Seconds(inc[c]) : c \in 1..Len(inc)}
           /\ \A j \in 1..Len(T.rows) : \A c \in 1..Len(inc) :
                 T.rows[j].cells[c] =
                    IF T.rows[j].time \in Seconds(inc[c])
                    THEN BinValue(inc[c], T.rows[j].time)
                    ELSE NaN

\* two animals on disjoint time axes, each missing where only the other is
C7_Witness ==
    /\ aggPc = "plot"
    /\ Len(aggData.Control.names) >= 2
    /\ Seconds(IncludedOf(aggFiles.Control)[1]) \cap Seconds(IncludedOf(aggFiles.Control)[2]) = {}
    /\ \E j, k \in 1..Len(aggData.Control.rows) :
          /\ IsNaN(aggData.Control.rows[j].cells[1])
          /\ ~IsNaN(aggData.Control.rows[j].cells[2])
          /\ ~IsNaN(aggData.Control.rows[k].cells[1])
          /\ IsNaN(aggData.Control.rows[k].cells[2])

Present(cells) == DropNaN(cells)

\* the population variance of the cells present
PresentVar(cells) ==
    LET v == Present(cells)
        m == RDiv(Sum(v), Num(Len(v)))
    IN RDiv(Sum([i \in 1..Len(v) |-> RMul(RSub(v[i], m), RSub(v[i], m))]), Num(Len(v)))

HasMissing(T) ==
    \E j \in 1..Len(T.rows) : \E c \in 1..Len(T.names) : IsNaN(T.rows[j].cells[c])

\* the squared SEM the claim gives a row
SemByPresent(T, curve) ==
    \A j \in 1..Len(T.rows) :
        curve[j].sem2 = RDiv(PresentVar(T.rows[j].cells),
                             Num(Len(Present(T.rows[j].cells))))

\* C3: in a table with a missing cell, the SEM at each time is the
\* population standard deviation of the cells present over the square root
\* of their number (compared as squares).
C3_SemOverPresentAnimals ==
    aggPc = "done" =>
        /\ HasMissing(aggData.Control) => SemByPresent(aggData.Control, aggCurves.control)
        /\ HasMissing(aggData.Test) => SemByPresent(aggData.Test, aggCurves.test)

====
